---- MODULE Spec2Model ----
(***************************************************************************)
(* A model of stream_ml's parameter-bounds mapping (ParamBounds), its      *)
(* prior bounds (PriorBounds / NoBounds), the compound data scaler         *)
(* (CompoundDataScaler) and the jax mixture model's aggregation            *)
(* (MixtureModel).  Every operation of the code is an operator computed    *)
(* the way the code computes it; the actions apply the operators to        *)
(* inputs drawn from small sets and record the call and what it returned   *)
(* or raised.                                                              *)
(***************************************************************************)
EXTENDS Integers, Sequences, FiniteSets, TLC

VARIABLES
    P,            \* the ParamBounds instance under test (an ordered mapping)
    call,         \* the last ParamBounds operation: its inputs and its outcome
    C,            \* the data scaler under test
    scall,        \* the last scaler operation: its inputs and its outcome
    checkedData,  \* whether Data(array, names=...) rejects a name tuple whose
                  \* length is not the array's column count
    mx,           \* the MixtureModel method being run: its inputs, its position,
                  \* its locals and the calls it has made
    bg,           \* the last BackgroundModel operation: its inputs and its outcome
    th            \* the last BoundedHardThreshold operation: its inputs and its
                  \* outcome

boundsVars == <<P, call>>
scalerVars == <<C, scall, checkedData>>
vars == <<P, call, C, scall, checkedData, mx, bg, th>>

\* ------------------------------------------------------------------------
\* Bounds of the model
MaxItems == 2      \* items of a ParamBounds literal
MaxSubItems == 1   \* items of a nested mapping in a ParamBounds literal
MaxSub == 2        \* sub-names of one grouped parameter name
MaxTuple == 3      \* positional arguments of NoBounds(...), items of a bounds tuple
MaxNames == 2      \* entries of a ParamNames collection
MaxScalers == 2    \* sub-scalers of a CompoundDataScaler
MaxCols == 2       \* columns of one sub-scaler
MaxComponents == 2 \* components of a MixtureModel
MaxPriors == 2     \* top-level priors of a MixtureModel
MaxBgNames == 2    \* entries of a BackgroundModel's param_names
MaxParCols == 3    \* columns of a parameter array
NRows == 2         \* rows of the data and of every parameter column

\* ------------------------------------------------------------------------
\* Python outcomes: a call returns a value or raises an exception
Ret(v) == [kind |-> "return", value |-> v]
Raise(e) == [kind |-> "raise", exc |-> e]
Returned(r) == r.kind = "return"
Raised(r, e) == r.kind = "raise" /\ r.exc = e

RaiseArg(e, a) == [kind |-> "raise", exc |-> e, arg |-> a]

\* ------------------------------------------------------------------------
\* Sequences
Range(s) == {s[i] : i \in 1..Len(s)}
Distinct(s) == \A i, j \in 1..Len(s) : i # j => s[i] # s[j]
Position(s, x) == CHOOSE i \in 1..Len(s) : s[i] = x /\ \A j \in 1..(i - 1) : s[j] # x

RECURSIVE Filter(_, _)
\* tuple(n for n in s if n in keep)
Filter(s, keep) ==
    IF s = <<>> THEN <<>>
    ELSE (IF s[1] \in keep THEN <<s[1]>> ELSE <<>>) \o Filter(Tail(s), keep)

\* ------------------------------------------------------------------------
\* Insertion-ordered mappings (dict, FrozenDict): sequences of <<key, value>>
HasKey(d, k) == \E i \in 1..Len(d) : d[i][1] = k
IndexOf(d, k) == CHOOSE i \in 1..Len(d) : d[i][1] = k
DictGet(d, k) == d[IndexOf(d, k)][2]
DictSet(d, k, v) ==
    IF HasKey(d, k) THEN [d EXCEPT ![IndexOf(d, k)] = <<k, v>>]
    ELSE Append(d, <<k, v>>)

RECURSIVE DictUpdate(_, _)
\* dict(m, **kwargs): the keyword items are set onto m in order
DictUpdate(d, items) ==
    IF items = <<>> THEN d
    ELSE DictUpdate(DictSet(d, items[1][1], items[1][2]), Tail(items))

\* ------------------------------------------------------------------------
\* Values
PosInf == 1000
NegInf == -1000
NoName == <<>>     \* param_name = None

PB(cls, lo, up, pn) ==
    [tag |-> "PriorBounds", cls |-> cls, lower |-> lo, upper |-> up, param_name |-> pn]
NoneV == [tag |-> "None"]
IntV == [tag |-> "int"]
MappingV(items) == [tag |-> "Mapping", items |-> items]
FrozenDictV(items) == [tag |-> "FrozenDict", items |-> items]

IsPriorBounds(v) == v.tag = "PriorBounds"
IsMapping(v) == v.tag \in {"Mapping", "FrozenDict"}
IsFrozenDict(v) == v.tag = "FrozenDict"

\* Keys that are not strings (an int used as a key) are written "#1"
NonStrKeys == {"#1"}
IsStr(k) == k \notin NonStrKeys

\* a NoBounds whose __post_init__ accepts any lower and upper
NoBounds_new_unchecked(lo, up, pn) == Ret(PB("NoBounds", lo, up, pn))

\* NoBounds(lower, upper, param_name=...) with its __post_init__
NoBounds_new(lo, up, pn) ==
    IF lo # NegInf \/ up # PosInf THEN Raise("ValueError")
    ELSE Ret(PB("NoBounds", lo, up, pn))

\* NoBounds(): the dataclass defaults
NoBounds_default == NoBounds_new(NegInf, PosInf, NoName).value

\* NoBounds(*args, param_name=pn): lower and upper are the positional fields,
\* param_name is keyword-only, the fields left out take their defaults
NoBounds_init(args, pn) ==
    IF Len(args) > 2 THEN Raise("TypeError")
    ELSE NoBounds_new(IF Len(args) >= 1 THEN args[1] ELSE NegInf,
                      IF Len(args) >= 2 THEN args[2] ELSE PosInf, pn)

\* PriorBounds.from_tuple(t, param_name) called on NoBounds: cls(*t, param_name=...)
PriorBounds_from_tuple(t, pn) == NoBounds_init(t, pn)

\* dataclasses.replace(b, param_name=pn): a new instance made by the class's
\* constructor from b's fields (so __post_init__ runs again), b itself untouched
Replace(b, pn) ==
    IF b.cls = "NoBounds" THEN NoBounds_new(b.lower, b.upper, pn).value
    ELSE [b EXCEPT !.param_name = pn]

\* NoBounds.logpdf(*args) and NoBounds.__call__(*args)
NoBounds_logpdf(self, args) ==
    IF Len(args) < 3 \/ Len(args) > 4 THEN Raise("TypeError")
    ELSE IF self.param_name = NoName THEN Raise("ValueError")
    ELSE Ret(0)

NoBounds_call(self, args) ==
    IF Len(args) # 3 THEN Raise("TypeError")
    ELSE Ret(args[1])

\* ------------------------------------------------------------------------
\* ParamBounds.__init__

RECURSIVE NestedFreeze(_, _)
\* the dict comprehension {kk: (vv if isinstance(vv, PriorBounds) else NoBounds())}
NestedFreeze(items, acc) ==
    IF items = <<>> THEN acc
    ELSE LET kk == items[1][1]
             vv == items[1][2]
         IN NestedFreeze(Tail(items),
                DictSet(acc, kk, IF IsPriorBounds(vv) THEN vv ELSE NoBounds_default))

RECURSIVE InitLoop(_, _)
InitLoop(items, pb) ==
    IF items = <<>> THEN Ret(pb)
    ELSE LET k == items[1][1]
             v == items[1][2]
         IN IF ~IsStr(k) THEN Raise("TypeError")
            ELSE IF IsPriorBounds(v) THEN InitLoop(Tail(items), DictSet(pb, k, v))
            ELSE IF v = NoneV THEN InitLoop(Tail(items), DictSet(pb, k, NoBounds_default))
            ELSE IF IsMapping(v)
                 THEN InitLoop(Tail(items),
                               DictSet(pb, k, FrozenDictV(NestedFreeze(v.items, <<>>))))
            ELSE Raise("TypeError")

ParamBounds_init(m, kwargs) == InitLoop(DictUpdate(m, kwargs), <<>>)

\* ------------------------------------------------------------------------
\* ParamNames: flat names "w" and grouped names (g, (a, b, ...))
FlatName(n) == [n |-> n, grouped |-> FALSE, subs |-> <<>>]
GroupName(n, subs) == [n |-> n, grouped |-> TRUE, subs |-> subs]

RECURSIVE Flats(_)
\* ParamNames.flats: (n,) for a flat name, (g, a), (g, b), ... for a grouped one
Flats(names) ==
    IF names = <<>> THEN <<>>
    ELSE LET pn == names[1]
         IN (IF pn.grouped THEN [i \in 1..Len(pn.subs) |-> <<pn.n, pn.subs[i]>>]
             ELSE << <<pn.n>> >>) \o Flats(Tail(names))

\* ------------------------------------------------------------------------
\* ParamBounds.from_names

RECURSIVE StampSubs(_, _, _, _)
\* {k: replace(default, param_name=(pn[0], k)) for k in pn[1]}
StampSubs(g, subs, default, acc) ==
    IF subs = <<>> THEN acc
    ELSE StampSubs(g, Tail(subs), default,
                   DictSet(acc, subs[1], Replace(default, <<g, subs[1]>>)))

RECURSIVE FromNamesLoop(_, _, _)
FromNamesLoop(names, default, m) ==
    IF names = <<>> THEN m
    ELSE LET pn == names[1]
         IN IF ~pn.grouped
            THEN FromNamesLoop(Tail(names), default,
                               DictSet(m, pn.n, Replace(default, <<pn.n>>)))
            ELSE FromNamesLoop(Tail(names), default,
                               DictSet(m, pn.n,
                                       FrozenDictV(StampSubs(pn.n, pn.subs, default, <<>>))))

\* a from_names that stamps every declared name as a flat name
ParamBounds_from_names_flat(names, default) ==
    ParamBounds_init(
        FromNamesLoop([i \in 1..Len(names) |-> FlatName(names[i].n)], default, <<>>), <<>>)

ParamBounds_from_names(names, default) ==
    ParamBounds_init(FromNamesLoop(names, default, <<>>), <<>>)

\* ------------------------------------------------------------------------
\* ParamBounds.__getitem__ / __contains__
StrKey(s) == [isstr |-> TRUE, t |-> <<s>>]
TupleKey(t) == [isstr |-> FALSE, t |-> t]

ParamBounds_getitem(pb, key) ==
    IF key.isstr
    THEN IF HasKey(pb, key.t[1]) THEN Ret(DictGet(pb, key.t[1])) ELSE Raise("KeyError")
    ELSE IF Len(key.t) = 1
    THEN IF ~HasKey(pb, key.t[1]) THEN Raise("KeyError")
         ELSE IF ~IsPriorBounds(DictGet(pb, key.t[1])) THEN Raise("KeyError")
         ELSE Ret(DictGet(pb, key.t[1]))
    ELSE IF ~HasKey(pb, key.t[1]) THEN Raise("KeyError")
         ELSE LET v == DictGet(pb, key.t[1])
              IN IF ~IsFrozenDict(v) THEN Raise("KeyError")
                 ELSE IF HasKey(v.items, key.t[2]) THEN Ret(DictGet(v.items, key.t[2]))
                 ELSE Raise("KeyError")

\* a __contains__ that looks every key form up by its first element
ParamBounds_contains_direct(pb, o) == Ret(HasKey(pb, o.t[1]))

ParamBounds_contains(pb, o) ==
    IF o.isstr THEN Ret(HasKey(pb, o.t[1]))
    ELSE LET r == ParamBounds_getitem(pb, o)
         IN IF Raised(r, "KeyError") THEN Ret(FALSE)
            ELSE IF r.kind = "raise" THEN r
            ELSE Ret(TRUE)

\* ------------------------------------------------------------------------
\* ParamBounds.flatitems / flatkeys

RECURSIVE flatitems(_)
flatitems(pb) ==
    IF pb = <<>> THEN <<>>
    ELSE LET name == pb[1][1]
             bounds == pb[1][2]
         IN (IF IsPriorBounds(bounds) THEN << <<<<name>>, bounds>> >>
             ELSE [i \in 1..Len(bounds.items) |->
                      << <<name, bounds.items[i][1]>>, bounds.items[i][2] >>])
            \o flatitems(Tail(pb))

flatkeys(pb) == LET fi == flatitems(pb) IN [i \in 1..Len(fi) |-> fi[i][1]]

\* ------------------------------------------------------------------------
\* ParamBounds.validate

\* a validate that compares the keys as sets
ParamBounds_validate_set(pb, names, error) ==
    IF {flatkeys(pb)[i] : i \in 1..Len(flatkeys(pb))}
          # {Flats(names)[i] : i \in 1..Len(Flats(names))}
    THEN IF error THEN Raise("ValueError") ELSE Ret(FALSE)
    ELSE Ret(TRUE)

ParamBounds_validate(pb, names, error) ==
    IF flatkeys(pb) # Flats(names)
    THEN IF error THEN Raise("ValueError") ELSE Ret(FALSE)
    ELSE Ret(TRUE)

\* ------------------------------------------------------------------------
\* ParamBounds._fixup_param_names

RECURSIVE FixupSubs(_, _, _)
\* {kk: replace(vv, param_name=(k, kk)) for kk, vv in v.items()}
FixupSubs(k, items, acc) ==
    IF items = <<>> THEN acc
    ELSE FixupSubs(k, Tail(items),
                   DictSet(acc, items[1][1], Replace(items[1][2], <<k, items[1][1]>>)))

RECURSIVE FixupLoop(_, _)
FixupLoop(items, new) ==
    IF items = <<>> THEN new
    ELSE LET k == items[1][1]
             v == items[1][2]
         IN IF IsPriorBounds(v)
            THEN FixupLoop(Tail(items), DictSet(new, k, Replace(v, <<k>>)))
            ELSE FixupLoop(Tail(items),
                           DictSet(new, k, MappingV(FixupSubs(k, v.items, <<>>))))

\* a _fixup_param_names that stamps every nested bound with its group's name only
ParamBounds_fixup_param_names_group(pb) ==
    ParamBounds_init(
        [i \in 1..Len(pb) |->
            IF IsPriorBounds(pb[i][2]) THEN <<pb[i][1], Replace(pb[i][2], <<pb[i][1]>>)>>
            ELSE <<pb[i][1],
                   MappingV([j \in 1..Len(pb[i][2].items) |->
                       <<pb[i][2].items[j][1],
                         Replace(pb[i][2].items[j][2], <<pb[i][1]>>)>>])>>],
        <<>>)

ParamBounds_fixup_param_names(pb) == ParamBounds_init(FixupLoop(pb, <<>>), <<>>)

\* ------------------------------------------------------------------------
\* Inputs of the ParamBounds operations
BoundValues == {NegInf, 0, 1, PosInf}
BoundTuples == UNION {[1..k -> BoundValues] : k \in 0..MaxTuple}
StampNames == {NoName, <<"a">>}
B0 == PB("NoBounds", NegInf, PosInf, NoName)
B1 == PB("Bounded", 0, 1, NoName)
PriorBoundsSet == {B0, B1}

TopKeys == {"a", "b", "#1"}
SubKeys == {"x", "#1"}

\* insertion-ordered mappings of at most n items with distinct keys
OrderedDicts(K, V, n) ==
    {d \in UNION {[1..k -> K \X V] : k \in 0..n} :
        \A i, j \in 1..Len(d) : i # j => d[i][1] # d[j][1]}

SubValues == {NoneV, B1, IntV}
SubLiterals == OrderedDicts(SubKeys, SubValues, MaxSubItems)
TopValues == {NoneV, B1, IntV} \cup {MappingV(d) : d \in SubLiterals}
Literals == OrderedDicts(TopKeys, TopValues, MaxItems)
KwLiterals == {<<>>, << <<"a", NoneV>> >>, << <<"c", B1>> >>}

TopNames == {"a", "b"}
SubNames == {"x", "y"}
\* tuples of distinct sub-names
SubSeqs ==
    {s \in UNION {[1..k -> SubNames] : k \in 0..MaxSub} :
        \A i, j \in 1..Len(s) : i # j => s[i] # s[j]}
NameEntries == {FlatName(n) : n \in TopNames}
               \cup {GroupName(n, s) : n \in TopNames, s \in SubSeqs}
NamesSet == UNION {[1..k -> NameEntries] : k \in 0..MaxNames}

ProbeKeys == {StrKey(s) : s \in {"a", "b", "x"}}
             \cup {TupleKey(<<s>>) : s \in {"a", "b", "x"}}
             \cup {TupleKey(<<s, t>>) : s \in {"a", "b", "x"}, t \in {"x", "y", "a"}}

\* ------------------------------------------------------------------------
\* The ParamBounds operations as actions
Built == call.op \in {"init", "from_names"} /\ Returned(call.ret)

\* ParamBounds(m, **kwargs)
Construct ==
    /\ call.op = "none"
    /\ \E m \in Literals, kw \in KwLiterals :
          LET r == ParamBounds_init(m, kw)
          IN /\ call' = [op |-> "init", m |-> m, kwargs |-> kw, ret |-> r]
             /\ P' = IF Returned(r) THEN r.value ELSE P
    /\ UNCHANGED <<scalerVars, mx, bg, th>>

\* ParamBounds.from_names(names, default)
FromNames ==
    /\ call.op = "none"
    /\ \E names \in NamesSet, default \in PriorBoundsSet :
          LET r == ParamBounds_from_names(names, default)
          IN /\ call' = [op |-> "from_names", names |-> names, default |-> default,
                         ret |-> r]
             /\ P' = IF Returned(r) THEN r.value ELSE P
    /\ UNCHANGED <<scalerVars, mx, bg, th>>

\* key in P, and P[key]
Probe ==
    /\ Built
    /\ \E key \in ProbeKeys :
          call' = [op |-> "probe", key |-> key, self |-> P,
                   contains |-> ParamBounds_contains(P, key),
                   getitem |-> ParamBounds_getitem(P, key)]
    /\ UNCHANGED P
    /\ UNCHANGED <<scalerVars, mx, bg, th>>

\* model.param_bounds.validate(names, error=False) and (..., error=True), for the
\* bounds a model got from from_names
Validate ==
    /\ call.op = "from_names"
    /\ Returned(call.ret)
    /\ \E names \in NamesSet :
          call' = [op |-> "validate", names |-> names, self |-> P,
                   ret |-> ParamBounds_validate(P, names, FALSE),
                   retError |-> ParamBounds_validate(P, names, TRUE)]
    /\ UNCHANGED P
    /\ UNCHANGED <<scalerVars, mx, bg, th>>

\* NoBounds(*args, param_name=pn)
NewNoBounds ==
    /\ call.op = "none"
    /\ \E args \in BoundTuples, pn \in StampNames :
          call' = [op |-> "nobounds", args |-> args, pn |-> pn,
                   ret |-> NoBounds_init(args, pn)]
    /\ UNCHANGED P
    /\ UNCHANGED <<scalerVars, mx, bg, th>>

\* NoBounds.from_tuple(t, param_name=pn)
FromTuple ==
    /\ call.op = "none"
    /\ \E t \in BoundTuples, pn \in StampNames :
          call' = [op |-> "from_tuple", t |-> t, pn |-> pn,
                   ret |-> PriorBounds_from_tuple(t, pn)]
    /\ UNCHANGED P
    /\ UNCHANGED <<scalerVars, mx, bg, th>>

\* P._fixup_param_names(): a new ParamBounds is returned, nothing is assigned
\* on P
Fixup ==
    /\ Built
    /\ call' = [op |-> "fixup", self |-> P, ret |-> ParamBounds_fixup_param_names(P)]
    /\ UNCHANGED P
    /\ UNCHANGED <<scalerVars, mx, bg, th>>

\* b.logpdf(mpars, data, model) for a NoBounds b among the flat values of the
\* ParamBounds that the last operation returned
Logpdf ==
    /\ call.op \in {"init", "from_names", "fixup"}
    /\ Returned(call.ret)
    /\ \E i \in 1..Len(flatitems(call.ret.value)) :
          LET b == flatitems(call.ret.value)[i][2]
          IN /\ b.cls = "NoBounds"
             /\ call' = [op |-> "logpdf", after |-> call.op,
                         key |-> flatitems(call.ret.value)[i][1], self |-> b,
                         ret |-> NoBounds_logpdf(b, <<"mpars", "data", "model">>)]
    /\ UNCHANGED P
    /\ UNCHANGED <<scalerVars, mx, bg, th>>

InitBounds ==
    /\ P = <<>>
    /\ call = [op |-> "none"]

NextBounds ==
    \/ Construct \/ FromNames \/ Probe \/ Validate
    \/ NewNoBounds \/ FromTuple \/ Fixup \/ Logpdf

\* ------------------------------------------------------------------------
\* Data: an array with named columns.  An array is the sequence of its
\* columns and a column is one number (one row).
Data_new(array, names) ==
    IF checkedData /\ Len(names) # Len(array) THEN Raise("ValueError")
    ELSE Ret([type |-> "Data", array |-> array, names |-> names])

RawArray(array) == [type |-> "Array", array |-> array]
IsData(d) == d.type = "Data"

\* data[ns] for a tuple of names: the named columns, in the order of ns
Data_getitem(data, ns) ==
    IF \E i \in 1..Len(ns) : ns[i] \notin Range(data.names) THEN Raise("KeyError")
    ELSE IF \E i \in 1..Len(ns) : Position(data.names, ns[i]) > Len(data.array)
    THEN Raise("IndexError")
    ELSE Data_new([i \in 1..Len(ns) |-> data.array[Position(data.names, ns[i])]], ns)

\* ------------------------------------------------------------------------
\* A sub-scaler: an invertible transform of its own named columns (a shift by
\* its offset)
Scaler(names, off) == [cls |-> "Scaler", names |-> names, off |-> off]
Scaler_transform(s, data, ns) == [i \in 1..Len(data.array) |-> data.array[i] + s.off]
Scaler_inverse_transform(s, data, ns) ==
    [i \in 1..Len(data.array) |-> data.array[i] - s.off]
\* scaler[ns]: the sub-scaler restricted to the columns ns
Scaler_getitem(s, ns) == Scaler(ns, s.off)
\* scaler.astype(fmt): the same scaler over another array format
Scaler_astype(s) == s

\* ------------------------------------------------------------------------
\* CompoundDataScaler.__post_init__

RECURSIVE FirstDuplicate(_, _)
\* the loop over every name of every scaler: the first name already seen, or
\* "" when no name repeats
FirstDuplicate(allnames, seen) ==
    IF allnames = <<>> THEN ""
    ELSE IF allnames[1] \in seen THEN allnames[1]
    ELSE FirstDuplicate(Tail(allnames), seen \cup {allnames[1]})

RECURSIVE ConcatNames(_)
ConcatNames(scalers) ==
    IF scalers = <<>> THEN <<>> ELSE scalers[1].names \o ConcatNames(Tail(scalers))

\* a constructor whose uniqueness check looks at each sub-scaler on its own
CompoundDataScaler_new_local(scalers) ==
    IF \E i \in 1..Len(scalers) : FirstDuplicate(scalers[i].names, {}) # ""
    THEN RaiseArg("ValueError", "")
    ELSE IF scalers = <<>> THEN Raise("TypeError")
    ELSE Ret([cls |-> "CompoundDataScaler", scalers |-> scalers,
              names |-> ConcatNames(scalers)])

CompoundDataScaler_new(scalers) ==
    LET dup == FirstDuplicate(ConcatNames(scalers), {})
    IN IF dup # "" THEN RaiseArg("ValueError", dup)
       \* functools.reduce(operator.add, ...) of an empty sequence, no initial value
       ELSE IF scalers = <<>> THEN Raise("TypeError")
       ELSE Ret([cls |-> "CompoundDataScaler", scalers |-> scalers,
                 names |-> ConcatNames(scalers)])

\* ------------------------------------------------------------------------
\* CompoundDataScaler.transform / inverse_transform

RECURSIVE TransformLoop(_, _, _, _, _)
\* for scaler in self.scalers: ns = ...; v = scaler.<direction>(data_[ns], names=ns);
\* xds.append(v); then xp.hstack(xds)
TransformLoop(scalers, data_, names, inverse, xd) ==
    IF scalers = <<>> THEN Ret(xd)
    ELSE LET scaler == scalers[1]
             ns == Filter(scaler.names, Range(names))
             sub == Data_getitem(data_, ns)
         IN IF ~Returned(sub) THEN sub
            ELSE TransformLoop(Tail(scalers), data_, names, inverse,
                    xd \o (IF inverse THEN Scaler_inverse_transform(scaler, sub.value, ns)
                           ELSE Scaler_transform(scaler, sub.value, ns)))

CompoundApply(self, data, names, inverse) ==
    LET is_data == IsData(data)
        data_ == IF ~is_data THEN Data_new(data.array, names) ELSE Ret(data)
    IN IF ~Returned(data_) THEN data_
       ELSE LET xd == TransformLoop(self.scalers, data_.value, names, inverse, <<>>)
            IN IF ~Returned(xd) THEN xd
               ELSE IF is_data THEN Data_new(xd.value, self.names)
               ELSE Ret(RawArray(xd.value))

CompoundDataScaler_transform(self, data, names) ==
    CompoundApply(self, data, names, FALSE)

CompoundDataScaler_inverse_transform(self, data, names) ==
    CompoundApply(self, data, names, TRUE)

\* ------------------------------------------------------------------------
\* CompoundDataScaler.__getitem__ / astype

RECURSIVE SubScalers(_, _)
\* tuple(scaler[ns] for scaler in self.scalers if (ns := ...))
SubScalers(scalers, names_tuple) ==
    IF scalers = <<>> THEN <<>>
    ELSE LET ns == Filter(scalers[1].names, Range(names_tuple))
         IN (IF ns # <<>> THEN <<Scaler_getitem(scalers[1], ns)>> ELSE <<>>)
            \o SubScalers(Tail(scalers), names_tuple)

CompoundDataScaler_getitem(self, names_tuple) ==
    LET scalers == SubScalers(self.scalers, names_tuple)
    IN IF Len(scalers) > 1 THEN CompoundDataScaler_new(scalers)
       ELSE IF scalers = <<>> THEN Raise("IndexError")
       ELSE Ret(scalers[1])

CompoundDataScaler_astype(self) ==
    CompoundDataScaler_new([i \in 1..Len(self.scalers) |-> Scaler_astype(self.scalers[i])])

\* ------------------------------------------------------------------------
\* Inputs of the scaler operations
ColNames == {"a", "b", "c"}
Offsets == {1, 2}
DataValues == {0, 1}
ColTuples == UNION {[1..k -> ColNames] : k \in 1..MaxCols}
ScalerPool == {Scaler(t, o) : t \in ColTuples, o \in Offsets}
ScalerTuples == UNION {[1..k -> ScalerPool] : k \in 0..MaxScalers}

\* tuples of distinct names taken from the set S, in any order
Arrangements(S) ==
    {t \in UNION {[1..k -> S] : k \in 0..Cardinality(S)} : Distinct(t)}

\* ------------------------------------------------------------------------
\* The scaler operations as actions
IsCompound == C.cls = "CompoundDataScaler"

\* CompoundDataScaler(scalers)
Compose ==
    /\ scall.op = "none"
    /\ \E scalers \in ScalerTuples, chk \in BOOLEAN :
          LET r == CompoundDataScaler_new(scalers)
          IN /\ scall' = [op |-> "new", scalers |-> scalers, ret |-> r]
             /\ C' = IF Returned(r) THEN r.value ELSE C
             /\ checkedData' = chk
    /\ UNCHANGED <<boundsVars, mx, bg, th>>

\* C.transform(X, names=X.names), then C.inverse_transform(that, names=X.names),
\* for X a Data or a raw array whose columns are some of C's names
RoundTrip ==
    /\ IsCompound
    /\ scall.op \in {"new", "getitem", "astype"}
    /\ \E names \in Arrangements(Range(C.names)) \ {<<>>}, is_data \in BOOLEAN :
       \E array \in [1..Len(names) -> DataValues] :
          LET X == IF is_data THEN [type |-> "Data", array |-> array, names |-> names]
                   ELSE RawArray(array)
              t == CompoundDataScaler_transform(C, X, names)
          IN scall' = [op |-> "roundtrip", X |-> X, names |-> names, t |-> t,
                       back |-> IF Returned(t)
                                THEN CompoundDataScaler_inverse_transform(C, t.value, names)
                                ELSE t]
    /\ UNCHANGED <<C, checkedData>>
    /\ UNCHANGED <<boundsVars, mx, bg, th>>

\* C[names]
GetItem ==
    /\ IsCompound
    /\ scall.op = "new"
    /\ \E names \in Arrangements(Range(C.names)) :
          LET r == CompoundDataScaler_getitem(C, names)
          IN /\ scall' = [op |-> "getitem", names |-> names, ret |-> r]
             /\ C' = IF Returned(r) THEN r.value ELSE C
    /\ UNCHANGED checkedData
    /\ UNCHANGED <<boundsVars, mx, bg, th>>

\* C.astype(fmt)
AsType ==
    /\ IsCompound
    /\ scall.op = "new"
    /\ LET r == CompoundDataScaler_astype(C)
       IN /\ scall' = [op |-> "astype", ret |-> r]
          /\ C' = IF Returned(r) THEN r.value ELSE C
    /\ UNCHANGED checkedData
    /\ UNCHANGED <<boundsVars, mx, bg, th>>

InitScaler ==
    /\ C = [cls |-> "none"]
    /\ scall = [op |-> "none"]
    /\ checkedData = FALSE

NextScaler == Compose \/ RoundTrip \/ GetItem \/ AsType

\* ------------------------------------------------------------------------
\* Strings that are taken apart are sequences of characters
weight == <<"w", "e", "i", "g", "h", "t">>
Dot == <<".">>
StartsWith(k, prefix) ==
    Len(k) >= Len(prefix) /\ SubSeq(k, 1, Len(prefix)) = prefix

RECURSIVE PrefixedItems(_, _)
PrefixedItems(items, prefix) ==
    IF items = <<>> THEN <<>>
    ELSE (IF StartsWith(items[1][1], prefix)
          THEN << <<SubSeq(items[1][1], Len(prefix) + 1, Len(items[1][1])), items[1][2]>> >>
          ELSE <<>>) \o PrefixedItems(Tail(items), prefix)

\* Params.get_prefixed(name): the items whose key starts with name + ".", the
\* prefix stripped
get_prefixed(pars, name) == PrefixedItems(pars, name \o Dot)

\* ------------------------------------------------------------------------
\* Arrays of the mixture: a column is the sequence of its NRows entries, a
\* matrix the sequence of its columns.
Rows == 1..NRows
hstack(columns) == columns

RECURSIVE SumSeq(_)
SumSeq(s) == IF s = <<>> THEN 0 ELSE s[1] + SumSeq(Tail(s))

\* hstack(...).sum(dim=1)[:, None]: the sum of every row, as one column
RowSum(matrix) == [r \in Rows |-> SumSeq([c \in 1..Len(matrix) |-> matrix[c][r]])]

\* A log-likelihood is written as the likelihood it is the logarithm of: the
\* entry e stands for ln e, so that logsumexp of entries e1, e2 is ln(e1 + e2),
\* written e1 + e2.  logsumexp(matrix, axis=1)[:, None]:
logsumexp_axis1(matrix) == RowSum(matrix)

\* ------------------------------------------------------------------------
\* A mixture component (the Model capability): its log-likelihood, log-prior
\* and forward pass read its own parameter "weight"
ComponentModel(gain) == [gain |-> gain]

Model_ln_likelihood_arr(model, pars, data) ==
    IF ~HasKey(pars, weight) THEN Raise("KeyError")
    ELSE Ret([r \in Rows |-> DictGet(pars, weight)[r] * (model.gain + data[r])])

Model_ln_prior_arr(model, pars) ==
    IF ~HasKey(pars, weight) THEN Raise("KeyError")
    ELSE Ret([r \in Rows |-> 0 - model.gain * DictGet(pars, weight)[r]])

\* model(*args): one row, one column per parameter
Model_call(model, args) == <<model.gain + args[1][1]>>

\* ------------------------------------------------------------------------
\* PriorBounds.logpdf(mpars, data, model, current_lnpdf=None, /) and
\* PriorBounds.__call__(nn, data, model, /), as NoBounds implements them.
\* Python binds the positional arguments first; too few or too many is a
\* TypeError.

\* ------------------------------------------------------------------------
\* MixtureModel.ln_likelihood_arr

\* a call that hands the component the mixture's whole parameter set
LikPars_whole(pars, name) == pars

\* the parameters handed to the component `name`
LikPars(pars, name) == get_prefixed(pars, name)

\* the reduction over the stacked component columns
LikReduce(liks) == logsumexp_axis1(hstack(liks))

\* ------------------------------------------------------------------------
\* MixtureModel.ln_prior_arr / __call__

\* the arguments of prior.logpdf(pars, lp)
PriorLogpdfArgs(pars, lp) == <<pars, lp>>

\* the arguments of prior(result, self.param_names.flats)
PriorCallArgs(result, flats) == <<result, flats>>

\* xp.concatenate([...], axis=1) of one-row outputs
concatenate_axis1(outs) ==
    IF outs = <<>> THEN <<>>
    ELSE LET F[i \in 0..Len(outs)] == IF i = 0 THEN <<>> ELSE F[i - 1] \o outs[i]
         IN F[Len(outs)]

\* self.param_names.flats of the mixture: every component's flat names
MixtureFlats(components) == [i \in 1..Len(components) |-> <<components[i][1], weight>>]

\* ------------------------------------------------------------------------
\* Inputs of the mixture operations
ComponentNames == {<<"b">>, <<"b", "s">>, <<"s">>}
GainOf(name) == IF name = <<"b">> THEN 1 ELSE IF name = <<"s">> THEN 2 ELSE 3
ParamValues == {1, 2}
DataEntries == {0, 1}
Columns(V) == [Rows -> V]

ComponentDicts ==
    {[i \in 1..Len(t) |-> <<t[i], ComponentModel(GainOf(t[i]))>>] :
        t \in {u \in UNION {[1..k -> ComponentNames] : k \in 1..MaxComponents} : Distinct(u)}}

\* the parameters of a mixture: one "<component>.weight" column per component
ParamsFor(components) ==
    {[i \in 1..Len(components) |-> <<components[i][1] \o Dot \o weight, cols[i]>>] :
        cols \in [1..Len(components) -> Columns(ParamValues)]}

PriorPool == {PB("NoBounds", NegInf, PosInf, NoName),
              PB("NoBounds", NegInf, PosInf, <<"weight">>)}
PriorDicts ==
    {[i \in 1..Len(t) |-> <<IF i = 1 THEN "p1" ELSE IF i = 2 THEN "p2" ELSE "p3", t[i]>>] :
        t \in UNION {[1..k -> PriorPool] : k \in 0..MaxPriors}}

\* ------------------------------------------------------------------------
\* The MixtureModel methods as actions, one per step of the method
Running(op, pc) == mx.op = op /\ mx.pc = pc
Finished == mx.pc \in {"done", "raised"}
Fail(r) == [mx EXCEPT !.pc = "raised", !.ret = r]

\* mixture.ln_likelihood_arr(pars, data)
LikStart ==
    /\ mx.op = "none"
    /\ \E components \in ComponentDicts, data \in Columns(DataEntries) :
       \E pars \in ParamsFor(components) :
          mx' = [op |-> "ln_likelihood_arr", pc |-> "components", i |-> 1,
                 components |-> components, priors |-> <<>>, pars |-> pars,
                 data |-> data, acc |-> <<>>, trace |-> <<>>, ret |-> Ret(<<>>)]
    /\ UNCHANGED <<boundsVars, scalerVars, bg, th>>

\* one element of the generator: model.ln_likelihood_arr(pars.get_prefixed(name), data)
LikEval ==
    /\ Running("ln_likelihood_arr", "components")
    /\ mx.i <= Len(mx.components)
    /\ LET name == mx.components[mx.i][1]
           model == mx.components[mx.i][2]
           passed == LikPars(mx.pars, name)
           r == Model_ln_likelihood_arr(model, passed, mx.data)
       IN mx' = IF ~Returned(r)
                THEN [Fail(r) EXCEPT !.trace = Append(@, [name |-> name, pars |-> passed])]
                ELSE [mx EXCEPT !.i = @ + 1,
                                !.acc = Append(@, r.value),
                                !.trace = Append(@, [name |-> name, pars |-> passed])]
    /\ UNCHANGED <<boundsVars, scalerVars, bg, th>>

\* return logsumexp(xp.hstack(liks), axis=1)[:, None]
LikReturn ==
    /\ Running("ln_likelihood_arr", "components")
    /\ mx.i > Len(mx.components)
    /\ mx' = [mx EXCEPT !.pc = "done", !.ret = Ret(LikReduce(mx.acc))]
    /\ UNCHANGED <<boundsVars, scalerVars, bg, th>>

\* mixture.ln_prior_arr(pars)
PriorStart ==
    /\ mx.op = "none"
    /\ \E components \in ComponentDicts, priors \in PriorDicts :
       \E pars \in ParamsFor(components) :
          mx' = [op |-> "ln_prior_arr", pc |-> "components", i |-> 1,
                 components |-> components, priors |-> priors, pars |-> pars,
                 data |-> <<>>, acc |-> <<>>, trace |-> <<>>, ret |-> Ret(<<>>)]
    /\ UNCHANGED <<boundsVars, scalerVars, bg, th>>

\* one element of the generator: model.ln_prior_arr(pars.get_prefixed(name))
PriorEval ==
    /\ Running("ln_prior_arr", "components")
    /\ mx.i <= Len(mx.components)
    /\ LET name == mx.components[mx.i][1]
           model == mx.components[mx.i][2]
           r == Model_ln_prior_arr(model, get_prefixed(mx.pars, name))
       IN mx' = IF ~Returned(r) THEN Fail(r)
                ELSE [mx EXCEPT !.i = @ + 1, !.acc = Append(@, r.value)]
    /\ UNCHANGED <<boundsVars, scalerVars, bg, th>>

\* lp = xp.hstack(lps).sum(dim=1)[:, None]
PriorSum ==
    /\ Running("ln_prior_arr", "components")
    /\ mx.i > Len(mx.components)
    /\ mx' = [mx EXCEPT !.pc = "priors", !.i = 1, !.acc = RowSum(hstack(mx.acc))]
    /\ UNCHANGED <<boundsVars, scalerVars, bg, th>>

\* one turn of the loop: lp += prior.logpdf(pars, lp)
PriorPlugin ==
    /\ Running("ln_prior_arr", "priors")
    /\ mx.i <= Len(mx.priors)
    /\ LET prior == mx.priors[mx.i][2]
           args == PriorLogpdfArgs(mx.pars, mx.acc)
           r == NoBounds_logpdf(prior, args)
       IN mx' = IF ~Returned(r)
                THEN [Fail(r) EXCEPT !.trace = Append(@, [prior |-> mx.i, args |-> args])]
                ELSE [mx EXCEPT !.i = @ + 1,
                                !.acc = [row \in Rows |-> mx.acc[row] + r.value],
                                !.trace = Append(@, [prior |-> mx.i, args |-> args])]
    /\ UNCHANGED <<boundsVars, scalerVars, bg, th>>

\* return lp
PriorReturn ==
    /\ Running("ln_prior_arr", "priors")
    /\ mx.i > Len(mx.priors)
    /\ mx' = [mx EXCEPT !.pc = "done", !.ret = Ret(mx.acc)]
    /\ UNCHANGED <<boundsVars, scalerVars, bg, th>>

\* mixture(*args)
CallStart ==
    /\ mx.op = "none"
    /\ \E components \in ComponentDicts, priors \in PriorDicts, x \in DataEntries :
          mx' = [op |-> "call", pc |-> "components", i |-> 1,
                 components |-> components, priors |-> priors, pars |-> <<>>,
                 data |-> << <<x>> >>, acc |-> <<>>, trace |-> <<>>, ret |-> Ret(<<>>)]
    /\ UNCHANGED <<boundsVars, scalerVars, bg, th>>

\* result = xp.concatenate([model(*args) for model in ...], axis=1)
CallForward ==
    /\ Running("call", "components")
    /\ mx' = [mx EXCEPT !.pc = "priors",
                        !.acc = concatenate_axis1(
                                   [k \in 1..Len(mx.components) |->
                                       Model_call(mx.components[k][2], mx.data)])]
    /\ UNCHANGED <<boundsVars, scalerVars, bg, th>>

\* one turn of the loop: result = prior(result, self.param_names.flats)
CallPrior ==
    /\ Running("call", "priors")
    /\ mx.i <= Len(mx.priors)
    /\ LET prior == mx.priors[mx.i][2]
           args == PriorCallArgs(mx.acc, MixtureFlats(mx.components))
           r == NoBounds_call(prior, args)
       IN mx' = IF ~Returned(r)
                THEN [Fail(r) EXCEPT !.trace = Append(@, [prior |-> mx.i, args |-> args])]
                ELSE [mx EXCEPT !.i = @ + 1, !.acc = r.value,
                                !.trace = Append(@, [prior |-> mx.i, args |-> args])]
    /\ UNCHANGED <<boundsVars, scalerVars, bg, th>>

\* return result
CallReturn ==
    /\ Running("call", "priors")
    /\ mx.i > Len(mx.priors)
    /\ mx' = [mx EXCEPT !.pc = "done", !.ret = Ret(mx.acc)]
    /\ UNCHANGED <<boundsVars, scalerVars, bg, th>>

InitMixture == mx = [op |-> "none", pc |-> "idle"]

NextMixture ==
    \/ LikStart \/ LikEval \/ LikReturn
    \/ PriorStart \/ PriorEval \/ PriorSum \/ PriorPlugin \/ PriorReturn
    \/ CallStart \/ CallForward \/ CallPrior \/ CallReturn

\* ------------------------------------------------------------------------
\* Params under construction: a dict whose values are arrays or dicts of arrays
DictV(items) == [tag |-> "dict", items |-> items]
IsDict(v) == v.tag = "dict"

\* xp.asarray([]): a one-dimensional array of length zero
EmptyArray == [tag |-> "Array", ndim |-> 1, data |-> <<>>]

\* p_arr[:, i : i + 1]: a two-dimensional array of all rows and of column i
\* if p_arr has one (a slice past the last column is empty, not an error).
\* A two-dimensional array is the sequence of its columns.
ColumnSlice(p_arr, i) ==
    [tag |-> "Array", ndim |-> 2,
     data |-> IF i + 1 <= Len(p_arr) THEN <<p_arr[i + 1]>> ELSE <<>>]

\* set_param(m, key, value): m[key] = value for a str key or a 1-tuple,
\* m[key[0]][key[1]] = value for a 2-tuple, the inner dict made when m has no
\* key[0]; item assignment with a str index on an array fails
set_param(m, key, value) ==
    IF key.isstr \/ Len(key.t) = 1 THEN Ret(DictSet(m, key.t[1], value))
    ELSE LET g == key.t[1]
             m1 == IF HasKey(m, g) THEN m ELSE DictSet(m, g, DictV(<<>>))
         IN IF ~IsDict(DictGet(m1, g)) THEN Raise("IndexError")
            ELSE Ret(DictSet(m1, g, DictV(DictSet(DictGet(m1, g).items, key.t[2], value))))

\* freeze_params(m): the immutable Params, its inner dicts frozen
freeze_params(m) ==
    [tag |-> "Params",
     items |-> [i \in 1..Len(m) |->
                   IF IsDict(m[i][2]) THEN <<m[i][1], FrozenDictV(m[i][2].items)>>
                   ELSE m[i]]]

\* ------------------------------------------------------------------------
\* BackgroundModel.unpack_params_from_arr

RECURSIVE SkipWeight(_)
\* (n for n in self.param_names.flats if n != ("weight",))
SkipWeight(flats) ==
    IF flats = <<>> THEN <<>>
    ELSE (IF flats[1] # <<"weight">> THEN <<flats[1]>> ELSE <<>>) \o SkipWeight(Tail(flats))

RECURSIVE UnpackLoop(_, _, _, _, _)
\* for i, k in enumerate(...): set_param(pars, k, p_arr[:, i + first : ...]),
\* where the code has first = 0
UnpackLoop(ks, i, first, p_arr, pars) ==
    IF ks = <<>> THEN Ret(pars)
    ELSE LET r == set_param(pars, TupleKey(ks[1]), ColumnSlice(p_arr, i + first))
         IN IF ~Returned(r) THEN r
            ELSE UnpackLoop(Tail(ks), i + 1, first, p_arr, r.value)

\* an unpacking that keeps column 0 of p_arr for the weight
BackgroundModel_unpack_params_from_arr_shifted(param_names, p_arr) ==
    LET r == UnpackLoop(SkipWeight(Flats(param_names)), 0, 1, p_arr,
                        set_param(<<>>, StrKey("weight"), EmptyArray).value)
    IN IF Returned(r) THEN Ret(freeze_params(r.value)) ELSE r

BackgroundModel_unpack_params_from_arr(param_names, p_arr) ==
    LET r == UnpackLoop(SkipWeight(Flats(param_names)), 0, 0, p_arr,
                        set_param(<<>>, StrKey("weight"), EmptyArray).value)
    IN IF Returned(r) THEN Ret(freeze_params(r.value)) ELSE r

\* Inputs: the model's param_names and the parameter array
BgTopNames == {"weight", "a", "b"}
BgNameEntries == {FlatName(n) : n \in BgTopNames}
                 \cup {GroupName(n, s) : n \in BgTopNames, s \in SubSeqs}
BgNamesSet == UNION {[1..k -> BgNameEntries] : k \in 0..MaxBgNames}
\* columns that differ from each other and from row to row
ParColumns == {[r \in 1..NRows |-> v + r] : v \in {0, 10}}
ParArrays == UNION {[1..k -> ParColumns] : k \in 0..MaxParCols}

\* model.unpack_params_from_arr(p_arr)
Unpack ==
    /\ bg.op = "none"
    /\ \E param_names \in BgNamesSet, p_arr \in ParArrays :
          bg' = [op |-> "unpack", param_names |-> param_names, p_arr |-> p_arr,
                 ret |-> BackgroundModel_unpack_params_from_arr(param_names, p_arr)]
    /\ UNCHANGED <<boundsVars, scalerVars, mx, th>>

InitBackground == bg = [op |-> "none"]

NextBackground == Unpack

\* ------------------------------------------------------------------------
\* BoundedHardThreshold.  Here a two-dimensional array is the sequence of its
\* rows, a column array (N, 1) the sequence of its entries, and the arrays that
\* a call makes or writes live in a heap, so that a write through one name is
\* seen through every name of the same array.
BoundedHardThreshold(threshold, coord_name, lower, upper) ==
    [threshold |-> threshold, coord_name |-> coord_name, lower |-> lower, upper |-> upper]

\* within_bounds(x, lower, upper): both ends inclusive
within_bounds(x, lower, upper) == lower <= x /\ x <= upper

\* xp.threshold(x, threshold, value): x where x > threshold, else value
threshold(x, thr, value) == IF x > thr THEN x ELSE value

\* data[name] for one name: the column as an (N, 1) array
Data_column(data, name) == DictGet(data, name)

\* model.param_names.flat: the flattened names as strings
ModelWithFlat(flat) == [flat |-> flat]

\* an assignment `out = nn`: the same array under a second name
Clone_alias(heap, id) == [heap |-> heap, id |-> id]

\* nn.clone(): a new array with the entries of nn
Clone(heap, id) == [heap |-> Append(heap, heap[id]), id |-> Len(heap) + 1]

\* BoundedHardThreshold.__call__(nn, data, model) on the array heap[nn]: the
\* heap after the call and the array returned
BoundedHardThreshold_call(self, heap, nn, data, model) ==
    IF "weight" \notin Range(model.flat) THEN Raise("ValueError")
    ELSE LET im1 == Position(model.flat, "weight") - 1
             where == [r \in 1..Len(heap[nn]) |->
                          within_bounds(Data_column(data, self.coord_name)[r],
                                        self.lower, self.upper)]
             rhs == [r \in 1..Len(heap[nn]) |->
                        threshold(heap[nn][r][im1 + 1], self.threshold, 0)]
             c == Clone(heap, nn)
             out == [r \in 1..Len(c.heap[c.id]) |->
                        IF where[r] THEN [c.heap[c.id][r] EXCEPT ![im1 + 1] = rhs[r]]
                        ELSE c.heap[c.id][r]]
         IN Ret([heap |-> [c.heap EXCEPT ![c.id] = out], out |-> c.id])

\* BoundedHardThreshold.logpdf(mpars, data, model): mpars is given by its
\* entry ("weight",), an (N, 1) array
BoundedHardThreshold_logpdf(self, weights, data, model) ==
    LET zeros == [r \in 1..Len(weights) |-> 0]
    IN Ret([r \in 1..Len(weights) |->
               IF /\ within_bounds(Data_column(data, self.coord_name)[r],
                                   self.lower, self.upper)
                  /\ weights[r] < self.threshold
               THEN NegInf ELSE zeros[r]])

\* Inputs
Threshold == 1
WeightValues == {0, 1, 2}
OtherValues == {0, 2}
CoordValues == {0, 1, 2, 3}
DomainBounds == {<<NegInf, PosInf>>, <<1, 2>>, <<NegInf, 1>>, <<2, PosInf>>}
FlatNames == {<<"weight">>, <<"weight", "a">>, <<"a", "weight">>, <<"a">>}
Priors == {BoundedHardThreshold(Threshold, "phi1", b[1], b[2]) : b \in DomainBounds}
CoordData == {<< <<"phi1", col>> >> : col \in [1..NRows -> CoordValues]}
\* the network outputs with one column per flat name
Outputs(flat) ==
    [1..NRows -> {row \in [1..Len(flat) -> WeightValues \cup OtherValues] :
                     \A c \in 1..Len(flat) :
                        row[c] \in (IF flat[c] = "weight" THEN WeightValues
                                    ELSE OtherValues)}]
WeightColumns == [1..NRows -> WeightValues]

\* prior(nn, data, model)
ThresholdCall ==
    /\ th.op = "none"
    /\ \E self \in Priors, flat \in FlatNames, data \in CoordData :
          \E nn \in Outputs(flat) :
             th' = [op |-> "call", self |-> self, nn |-> nn, data |-> data,
                    model |-> ModelWithFlat(flat),
                    ret |-> BoundedHardThreshold_call(self, <<nn>>, 1, data,
                                                      ModelWithFlat(flat))]
    /\ UNCHANGED <<boundsVars, scalerVars, mx, bg>>

\* prior.logpdf(mpars, data, model)
ThresholdLogpdf ==
    /\ th.op = "none"
    /\ \E self \in Priors, weights \in WeightColumns, data \in CoordData :
          th' = [op |-> "logpdf", self |-> self, weights |-> weights, data |-> data,
                 ret |-> BoundedHardThreshold_logpdf(self, weights, data,
                                                     ModelWithFlat(<<"weight">>))]
    /\ UNCHANGED <<boundsVars, scalerVars, mx, bg>>

InitThreshold == th = [op |-> "none"]

NextThreshold == ThresholdCall \/ ThresholdLogpdf

\* ------------------------------------------------------------------------
Init == InitBounds /\ InitScaler /\ InitMixture /\ InitBackground /\ InitThreshold

SpecBounds == Init /\ [][NextBounds]_vars
SpecScaler == Init /\ [][NextScaler]_vars
SpecMixture == Init /\ [][NextMixture]_vars
SpecBackground == Init /\ [][NextBackground]_vars
SpecThreshold == Init /\ [][NextThreshold]_vars

\* ------------------------------------------------------------------------
\* Properties of ParamBounds

TopLevel(names) == [i \in 1..Len(names) |-> names[i].n]

\* C1 as stated: whenever the flattened names of N are pairwise distinct,
\* from_names(N, B).flatkeys() is the flattened name sequence of N.  (Stated
\* here for collections whose groups each have at least one sub-name.)
C1_AsStated ==
    (call.op = "from_names" /\ Distinct(Flats(call.names))
        /\ \A i \in 1..Len(call.names) :
              call.names[i].grouped => call.names[i].subs # <<>>)
        => (Returned(call.ret) /\ flatkeys(call.ret.value) = Flats(call.names))

\* C1 amended: whenever the flattened names of N are pairwise distinct and no
\* top-level name (flat or group name) occurs twice in N, from_names(N, B)
\* succeeds and its flatkeys() is the flattened name sequence of N: the same
\* names in the same order, none missing and none extra.
C1_FromNamesFlatKeys ==
    (call.op = "from_names" /\ Distinct(Flats(call.names))
                            /\ Distinct(TopLevel(call.names)))
        => (/\ Returned(call.ret)
            /\ Len(flatkeys(P)) = Len(Flats(call.names))
            /\ \A i \in 1..Len(Flats(call.names)) : flatkeys(P)[i] = Flats(call.names)[i])

\* a flat name followed by a group of two sub-names went through from_names
C1_Witness ==
    /\ call.op = "from_names"
    /\ Len(call.names) = 2
    /\ Distinct(TopLevel(call.names))
    /\ ~call.names[1].grouped
    /\ call.names[2].grouped /\ Len(call.names[2].subs) = 2
    /\ Len(flatkeys(P)) = 3

\* C2: for string, 1-tuple and 2-tuple keys, `key in P` never raises, is True
\* exactly when P[key] returns a value, and is False exactly when P[key]
\* raises KeyError.
C2_ContainsAgreesWithGetitem ==
    call.op = "probe"
        => (/\ Returned(call.contains)
            /\ call.contains.value \in BOOLEAN
            /\ (call.contains.value = TRUE) <=> Returned(call.getitem)
            /\ (call.contains.value = FALSE) <=> Raised(call.getitem, "KeyError"))

\* a 1-tuple key naming a nested group: the name is a top-level key, yet the
\* tuple key is absent
C2_Witness ==
    /\ call.op = "probe"
    /\ ~call.key.isstr /\ Len(call.key.t) = 1
    /\ HasKey(P, call.key.t[1])
    /\ Returned(call.contains) /\ call.contains.value = FALSE
    /\ Raised(call.getitem, "KeyError")

\* the effective literal of ParamBounds(m, **kwargs)
Literal(c) == DictUpdate(c.m, c.kwargs)
WellTypedLeaf(v) == IsPriorBounds(v) \/ v = NoneV
WellTypedValue(v) ==
    \/ WellTypedLeaf(v)
    \/ /\ IsMapping(v)
       /\ \A i \in 1..Len(v.items) : IsStr(v.items[i][1]) /\ WellTypedLeaf(v.items[i][2])
WellTypedLiteral(d) ==
    \A i \in 1..Len(d) : IsStr(d[i][1]) /\ WellTypedValue(d[i][2])
Stored(v) == IF v = NoneV THEN B0 ELSE v

\* C8 as stated: construction raises the validation error exactly when the
\* literal holds a non-string key or a malformed value, at the top level or
\* inside a nested mapping; otherwise it succeeds with None stored as
\* NoBounds(-inf, inf) and every PriorBounds stored as given.
C8_AsStated ==
    call.op = "init"
        => LET d == Literal(call)
           IN IF ~WellTypedLiteral(d) THEN Raised(call.ret, "TypeError")
              ELSE /\ Returned(call.ret)
                   /\ Len(P) = Len(d)
                   /\ \A i \in 1..Len(d) :
                         /\ P[i][1] = d[i][1]
                         /\ IF IsMapping(d[i][2])
                            THEN /\ IsFrozenDict(P[i][2])
                                 /\ Len(P[i][2].items) = Len(d[i][2].items)
                                 /\ \A j \in 1..Len(d[i][2].items) :
                                       P[i][2].items[j] =
                                          <<d[i][2].items[j][1], Stored(d[i][2].items[j][2])>>
                            ELSE P[i][2] = Stored(d[i][2])

\* C9 as stated: validate(names, error=False) is True exactly when the set of
\* flattened keys equals the set of declared flat names.  (Stated here for
\* declared names that are pairwise distinct, as a model's names are.)
C9_AsStated ==
    (call.op = "validate" /\ Distinct(Flats(call.names)))
        => (/\ Returned(call.ret)
            /\ call.ret.value = (Range(flatkeys(call.self)) = Range(Flats(call.names))))

\* C9 amended: validate(names, error=False) returns True exactly when the
\* flattened keys of the bounds are the declared flat names in the same order
\* (same length, same name at every position) and False otherwise; with
\* error=True it returns True in the same cases and raises ValueError in all
\* others; the bounds are unchanged by the call.
C9_ValidateOrdered ==
    call.op = "validate"
        => LET fk == flatkeys(call.self)
               fn == Flats(call.names)
               same == Len(fk) = Len(fn) /\ \A i \in 1..Len(fk) : fk[i] = fn[i]
           IN /\ call.ret = Ret(same)
              /\ call.retError = IF same THEN Ret(TRUE) ELSE Raise("ValueError")
              /\ P = call.self

\* validate accepted bounds of three flat keys, two of them nested
C9_Witness ==
    /\ call.op = "validate"
    /\ Len(flatkeys(P)) = 3
    /\ call.ret = Ret(TRUE)
    /\ call.retError = Ret(TRUE)

\* ------------------------------------------------------------------------
\* Properties of CompoundDataScaler

\* the sub-scaler of C that owns column n
Owner(n) == C.scalers[CHOOSE i \in 1..Len(C.scalers) : n \in Range(C.scalers[i].names)]
\* the column labelled n of a Data
Column(d, n) == d.array[Position(d.names, n)]

\* C3 as stated: for two disjoint-named scalers and a named X whose columns
\* are any of their names in any order, inverse_transform(transform(X)) with
\* names = X.names gives X back: the same names in the same order, each column
\* with its original values.  (Stated here for an X that lists its columns in
\* the compound scaler's own order.)
C3_AsStated ==
    (scall.op = "roundtrip" /\ IsData(scall.X) /\ Len(C.scalers) = 2
        /\ scall.names = Filter(C.names, Range(scall.names)))
        => scall.back = Ret(scall.X)

\* what C4 says of one call: the output is of the input's type, and a named
\* output has one column per requested name, as many names as columns, and
\* under each name n the owning sub-scaler's result for the input column n
MirrorsInput(in, names, out, sign) ==
    /\ Returned(out)
    /\ IsData(out.value) <=> IsData(in)
    /\ IsData(in) =>
          /\ Len(out.value.array) = Len(names)
          /\ Len(out.value.names) = Len(out.value.array)
          /\ Range(out.value.names) = Range(names)
          /\ \A n \in Range(names) :
                Column(out.value, n) = Column(in, n) + sign * Owner(n).off

\* C4 as stated: transform and inverse_transform mirror the input type and keep
\* the column metadata, for every requested name set that is a subset of the
\* compound scaler's names, strict subsets included.
C4_AsStated ==
    scall.op = "roundtrip"
        => /\ MirrorsInput(scall.X, scall.names, scall.t, 1)
           /\ MirrorsInput(scall.t.value, scall.names, scall.back, -1)

\* C10 as stated: construction succeeds exactly when no column name occurs more
\* than once across the sub-scalers' names.
C10_AsStated ==
    scall.op = "new"
        => (Returned(scall.ret) <=> Distinct(ConcatNames(scall.scalers)))

\* C10 amended: constructing a CompoundDataScaler from at least one sub-scaler
\* succeeds exactly when no column name occurs more than once across the
\* sub-scalers' names (from an empty tuple of sub-scalers it fails with a
\* TypeError); a repeated name makes it fail with a ValueError naming a name
\* that occurs more than once; on success `names` is the concatenation of the
\* sub-scalers' names in order; and no CompoundDataScaler whose `names` repeat a
\* name exists, those made by astype and __getitem__ included.
C10_UniqueNames ==
    /\ scall.op = "new" =>
          LET all == ConcatNames(scall.scalers)
          IN IF scall.scalers = <<>> THEN Raised(scall.ret, "TypeError")
             ELSE IF Distinct(all)
             THEN /\ Returned(scall.ret)
                  /\ C.scalers = scall.scalers
                  /\ C.names = all
             ELSE /\ Raised(scall.ret, "ValueError")
                  /\ Cardinality({i \in 1..Len(all) : all[i] = scall.ret.arg}) > 1
    /\ IsCompound => Distinct(C.names)

\* two sub-scalers, each with distinct names of its own, that share a name
C10_Witness ==
    /\ scall.op = "new"
    /\ Len(scall.scalers) = 2
    /\ Distinct(scall.scalers[1].names)
    /\ Distinct(scall.scalers[2].names)
    /\ Raised(scall.ret, "ValueError")
    /\ scall.ret.arg \in Range(scall.scalers[1].names) \cap Range(scall.scalers[2].names)

\* the round trip and the metadata hold when every name of the compound scaler
\* is requested in the compound scaler's own order
FullOrderRoundTrip ==
    (scall.op = "roundtrip" /\ scall.names = C.names)
        => /\ MirrorsInput(scall.X, scall.names, scall.t, 1)
           /\ MirrorsInput(scall.t.value, scall.names, scall.back, -1)
           /\ scall.back.value = scall.X

\* ------------------------------------------------------------------------
\* Properties of MixtureModel

\* the component's own parameters, the "<name>." prefix stripped
OwnPars(pars, name) == << <<weight, DictGet(pars, name \o Dot \o weight)>> >>
\* the log-likelihood column of the i-th component on its own parameters
OwnLik(i) ==
    Model_ln_likelihood_arr(mx.components[i][2],
                            OwnPars(mx.pars, mx.components[i][1]), mx.data).value
\* the log-prior column of the i-th component on its own parameters
OwnPrior(i) ==
    Model_ln_prior_arr(mx.components[i][2], OwnPars(mx.pars, mx.components[i][1])).value

\* C5: ln_likelihood_arr evaluates every component exactly once, in insertion
\* order, each on its own parameters with the prefix stripped and on no other
\* component's, and returns one column with, in every row, the log-sum-exp of
\* the components' entries of that row (written here as the sum of the
\* likelihoods).
C5_LikelihoodLogSumExp ==
    (mx.op = "ln_likelihood_arr" /\ Finished)
        => /\ mx.pc = "done"
           /\ Len(mx.trace) = Len(mx.components)
           /\ \A i \in 1..Len(mx.components) :
                 /\ mx.trace[i].name = mx.components[i][1]
                 /\ mx.trace[i].pars = OwnPars(mx.pars, mx.components[i][1])
           /\ Returned(mx.ret)
           /\ DOMAIN mx.ret.value = Rows
           /\ \A r \in Rows :
                 mx.ret.value[r] = SumSeq([i \in 1..Len(mx.components) |-> OwnLik(i)[r]])

\* a finished evaluation of two components, one's name a prefix of the
\* other's, whose rows differ
C5_Witness ==
    /\ mx.op = "ln_likelihood_arr"
    /\ mx.pc = "done"
    /\ Len(mx.components) = 2
    /\ mx.components[1][1] = <<"b", "s">>
    /\ mx.components[2][1] = <<"b">>
    /\ mx.ret.value[1] # mx.ret.value[2]
    /\ OwnLik(1) # OwnLik(2)

\* the forward outputs of the components, side by side in insertion order
ForwardOutputs ==
    concatenate_axis1([k \in 1..Len(mx.components) |->
                          Model_call(mx.components[k][2], mx.data)])

\* C6 as stated: __call__ returns the concatenation of the components' forward
\* outputs passed through every prior in order; with no priors, and when every
\* prior is a NoBounds, that is exactly the concatenation.  (Every prior of
\* the model is a NoBounds.)
C6_AsStated ==
    (mx.op = "call" /\ Finished)
        => /\ mx.pc = "done"
           /\ mx.ret = Ret(ForwardOutputs)

\* C7 as stated: ln_prior_arr sums the components' log-priors into one column,
\* then adds every prior's logpdf in order, handing the k-th prior the running
\* total as current_lnpdf (the fourth positional parameter of logpdf), and
\* returns the last running total.  (Stated for priors whose param_name is
\* set, whose logpdf is 0.)
C7_AsStated ==
    (mx.op = "ln_prior_arr" /\ Finished
        /\ \A k \in 1..Len(mx.priors) : mx.priors[k][2].param_name # NoName)
        => /\ mx.pc = "done"
           /\ mx.ret = Ret([r \in Rows |->
                              SumSeq([i \in 1..Len(mx.components) |-> OwnPrior(i)[r]])])
           /\ Len(mx.trace) = Len(mx.priors)
           /\ \A k \in 1..Len(mx.trace) :
                 /\ Len(mx.trace[k].args) = 4
                 /\ mx.trace[k].args[4] = mx.ret.value

\* the aggregation holds of a mixture with no top-level priors
NoPriorsAggregation ==
    (Finished /\ mx.op \in {"call", "ln_prior_arr"} /\ mx.priors = <<>>)
        => /\ mx.pc = "done"
           /\ mx.op = "call" => mx.ret = Ret(ForwardOutputs)
           /\ mx.op = "ln_prior_arr" =>
                 mx.ret = Ret([r \in Rows |->
                                 SumSeq([i \in 1..Len(mx.components) |-> OwnPrior(i)[r]])])

\* ------------------------------------------------------------------------
\* Properties of NoBounds and of the stamping of parameter names

\* the lower and upper that NoBounds(*args) asks for
AskedLower(args) == IF Len(args) >= 1 THEN args[1] ELSE NegInf
AskedUpper(args) == IF Len(args) >= 2 THEN args[2] ELSE PosInf

Unbounded(b) == b.lower = NegInf /\ b.upper = PosInf

\* every NoBounds among the flat values of a ParamBounds is (-inf, inf)
NoBoundsUnbounded(pb) ==
    \A i \in 1..Len(flatitems(pb)) :
        flatitems(pb)[i][2].cls = "NoBounds" => Unbounded(flatitems(pb)[i][2])

\* C11: every NoBounds instance has lower = -inf and upper = inf.  NoBounds()
\* is constructible; NoBounds(lower, upper) and NoBounds.from_tuple((lower,
\* upper)) succeed exactly when the pair is (-inf, inf) and fail with a
\* ValueError for every other pair; the NoBounds that ParamBounds makes from
\* None values and the stamped copies of from_names and _fixup_param_names
\* are (-inf, inf) as well.
C11_NoBoundsInvariant ==
    /\ (call.op = "nobounds" /\ Len(call.args) <= 2)
          => /\ Returned(call.ret)
                  <=> (AskedLower(call.args) = NegInf /\ AskedUpper(call.args) = PosInf)
             /\ ~Returned(call.ret) => Raised(call.ret, "ValueError")
             /\ call.args = <<>> => Returned(call.ret)
    /\ (call.op = "from_tuple" /\ Len(call.t) <= 2)
          => /\ Returned(call.ret)
                  <=> (AskedLower(call.t) = NegInf /\ AskedUpper(call.t) = PosInf)
             /\ ~Returned(call.ret) => Raised(call.ret, "ValueError")
    /\ (call.op \in {"nobounds", "from_tuple"} /\ Returned(call.ret))
          => (Unbounded(call.ret.value) /\ call.ret.value.param_name = call.pn)
    /\ NoBoundsUnbounded(P)
    /\ (call.op = "fixup" /\ Returned(call.ret)) => NoBoundsUnbounded(call.ret.value)
    /\ call.op = "logpdf" => Unbounded(call.self)

\* NoBounds.from_tuple((0, 1)) was called and failed
C11_Witness ==
    /\ call.op = "from_tuple"
    /\ call.t = <<0, 1>>
    /\ Raised(call.ret, "ValueError")

\* every flat item (k, b) of a ParamBounds has b.param_name = k
Stamped(pb) ==
    \A i \in 1..Len(flatitems(pb)) :
        flatitems(pb)[i][2].param_name = flatitems(pb)[i][1]

\* two ParamBounds have the same flat keys in the same order and, key by key,
\* bounds of the same class with the same lower and upper
SameBounds(pb, qb) ==
    /\ flatkeys(pb) = flatkeys(qb)
    /\ \A i \in 1..Len(flatitems(pb)) :
          /\ flatitems(pb)[i][2].cls = flatitems(qb)[i][2].cls
          /\ flatitems(pb)[i][2].lower = flatitems(qb)[i][2].lower
          /\ flatitems(pb)[i][2].upper = flatitems(qb)[i][2].upper

\* C14: P._fixup_param_names() returns a ParamBounds with the flat keys, the
\* order and the (lower, upper) values of P in which every flat item (k, b)
\* has b.param_name = k, and P itself is as it was; every flat item (k, b) of
\* from_names(N, B) has b.param_name = k and B's lower and upper, and B keeps
\* its unset param_name; NoBounds.logpdf returns 0 on every stamped NoBounds
\* and fails with a ValueError on one whose param_name is unset.
C14_StampingWithoutMutation ==
    /\ call.op = "fixup"
          => /\ Returned(call.ret)
             /\ Stamped(call.ret.value)
             /\ SameBounds(call.ret.value, call.self)
             /\ P = call.self
    /\ call.op = "from_names"
          => /\ Returned(call.ret)
             /\ Stamped(call.ret.value)
             /\ \A i \in 1..Len(flatitems(call.ret.value)) :
                   /\ flatitems(call.ret.value)[i][2].lower = call.default.lower
                   /\ flatitems(call.ret.value)[i][2].upper = call.default.upper
             /\ call.default.param_name = NoName
    /\ call.op = "logpdf"
          => /\ call.after \in {"fixup", "from_names"} => call.self.param_name = call.key
             /\ call.self.param_name # NoName => call.ret = Ret(0)
             /\ call.self.param_name = NoName => Raised(call.ret, "ValueError")

\* a ParamBounds built from None values, one of them nested, whose bounds carry
\* no param_name, went through _fixup_param_names
C14_Witness ==
    /\ call.op = "fixup"
    /\ Returned(call.ret)
    /\ Len(flatitems(call.self)) = 2
    /\ \A i \in 1..2 : /\ flatitems(call.self)[i][2].cls = "NoBounds"
                       /\ flatitems(call.self)[i][2].param_name = NoName
    /\ \E i \in 1..2 : Len(flatitems(call.self)[i][1]) = 2
    /\ Stamped(call.ret.value)

\* ------------------------------------------------------------------------
\* Properties of BackgroundModel.unpack_params_from_arr

\* params[k] for a flat name k
ParamsGet(params, k) ==
    IF Len(k) = 1 THEN DictGet(params.items, k[1])
    ELSE DictGet(DictGet(params.items, k[1]).items, k[2])

ParamsHas(params, k) ==
    /\ HasKey(params.items, k[1])
    /\ IF Len(k) = 1 THEN DictGet(params.items, k[1]).tag = "Array"
       ELSE /\ IsFrozenDict(DictGet(params.items, k[1]))
            /\ HasKey(DictGet(params.items, k[1]).items, k[2])

\* the flat keys of a Params
ParamsFlatKeys(params) ==
    UNION {IF IsFrozenDict(params.items[i][2])
           THEN {<<params.items[i][1], params.items[i][2].items[j][1]>> :
                    j \in 1..Len(params.items[i][2].items)}
           ELSE {<<params.items[i][1]>>} : i \in 1..Len(params.items)}

\* what the claim says of the result of one call
Unpacked(param_names, p_arr, ret) ==
    LET ks == SkipWeight(Flats(param_names))
    IN /\ Returned(ret)
       /\ ret.value.tag = "Params"
       /\ ParamsHas(ret.value, <<"weight">>)
       /\ ParamsGet(ret.value, <<"weight">>) = EmptyArray
       /\ \A i \in 1..Len(ks) :
             /\ ParamsHas(ret.value, ks[i])
             /\ ParamsGet(ret.value, ks[i])
                   = [tag |-> "Array", ndim |-> 2, data |-> <<p_arr[i]>>]
       /\ ParamsFlatKeys(ret.value) = {<<"weight">>} \cup Range(ks)

\* C12 as stated: for every model (its flattened names pairwise distinct) and
\* every p_arr with a column for each non-weight flat name, the result has the
\* zero-length "weight", maps the i-th non-weight flat name to column i and
\* has no other key.
C12_AsStated ==
    (/\ bg.op = "unpack"
     /\ Len(bg.p_arr) >= Len(SkipWeight(Flats(bg.param_names)))
     /\ Distinct(Flats(bg.param_names)))
        => Unpacked(bg.param_names, bg.p_arr, bg.ret)

\* C12 amended: for a model in whose param_names no top-level name (flat or
\* group name) occurs twice and "weight" is not the name of a group, and
\* every p_arr with a column for each non-weight flat name, the result has the
\* zero-length "weight", maps the i-th non-weight flat name to column i of
\* p_arr, reads no column for the weight and has no other key.
C12_UnpackSkipsWeight ==
    (/\ bg.op = "unpack"
     /\ Len(bg.p_arr) >= Len(SkipWeight(Flats(bg.param_names)))
     /\ Distinct(TopLevel(bg.param_names))
     /\ \A i \in 1..Len(bg.param_names) :
           bg.param_names[i].grouped => bg.param_names[i].n # "weight")
        => Unpacked(bg.param_names, bg.p_arr, bg.ret)

\* a model with the weight, a flat name and a group of two was unpacked from
\* an array of three different columns
C12_Witness ==
    /\ bg.op = "unpack"
    /\ bg.param_names = <<FlatName("weight"), GroupName("a", <<"x", "y">>)>>
    /\ Len(bg.p_arr) = 3
    /\ bg.p_arr[1] # bg.p_arr[2]
    /\ Unpacked(bg.param_names, bg.p_arr, bg.ret)

\* ------------------------------------------------------------------------
\* Properties of BoundedHardThreshold

\* row r of the call's data lies within [lower, upper] in the coordinate
InDomain(r) ==
    /\ th.self.lower <= th.data[1][2][r]
    /\ th.data[1][2][r] <= th.self.upper

WeightColumn == Position(th.model.flat, "weight")

\* C13: for a model that has the weight, __call__ returns a new array and
\* leaves nn as it was; in the rows within [lower, upper] the output's weight is
\* 0 where nn's weight is not above the threshold and nn's weight where it is
\* above; every other column and every other row is that of nn.  logpdf is
\* -inf exactly in the rows that are within the bounds and whose weight is
\* below the threshold, and 0 in every other row.
C13_HardThreshold ==
    /\ (th.op = "call" /\ "weight" \in Range(th.model.flat))
          => /\ Returned(th.ret)
             /\ th.ret.value.out # 1
             /\ th.ret.value.heap[1] = th.nn
             /\ LET out == th.ret.value.heap[th.ret.value.out]
                IN /\ Len(out) = Len(th.nn)
                   /\ \A r \in 1..Len(th.nn) :
                         /\ Len(out[r]) = Len(th.nn[r])
                         /\ \A c \in 1..Len(th.nn[r]) :
                               IF c = WeightColumn /\ InDomain(r)
                               THEN /\ th.nn[r][c] <= th.self.threshold => out[r][c] = 0
                                    /\ th.nn[r][c] > th.self.threshold
                                          => out[r][c] = th.nn[r][c]
                               ELSE out[r][c] = th.nn[r][c]
    /\ th.op = "logpdf"
          => /\ Returned(th.ret)
             /\ Len(th.ret.value) = Len(th.weights)
             /\ \A r \in 1..Len(th.weights) :
                   /\ th.ret.value[r] = NegInf
                         <=> (InDomain(r) /\ th.weights[r] < th.self.threshold)
                   /\ th.ret.value[r] # NegInf => th.ret.value[r] = 0

\* a call on a two-column output whose first row is within the bounds with a
\* weight at the threshold and whose second row is outside with a weight below
C13_Witness ==
    /\ th.op = "call"
    /\ th.model.flat = <<"a", "weight">>
    /\ InDomain(1) /\ th.nn[1][2] = th.self.threshold
    /\ ~InDomain(2) /\ th.nn[2][2] < th.self.threshold
    /\ Returned(th.ret)
    /\ th.ret.value.heap[th.ret.value.out][1][2] = 0
    /\ th.ret.value.heap[th.ret.value.out][2][2] = th.nn[2][2]

====
